---------------------------- MODULE Spec2Model ----------------------------
(***************************************************************************)
(* A model of the two command-line scripts of the aiStudent repository:    *)
(*                                                                         *)
(*   - src/src/aiStudent/agent.py: loads two JSON documents, builds a      *)
(*     prompt, opens a client session against the agent SDK, sends the     *)
(*     prompt and consumes the message stream while accumulating cost;     *)
(*   - src/scripts/pdf_restructure.py: uploads a PDF to a model service,   *)
(*     parses a chapter list from the response and writes one PDF per      *)
(*     chapter.                                                            *)
(*                                                                         *)
(* One behaviour is one run of one script (variable script).  The SDK, the *)
(* model service, the file system and the user are the environment: their  *)
(* answers are drawn nondeterministically from small sets.                 *)
(*                                                                         *)
(* Modelling decisions:                                                    *)
(*   - money is counted in whole units (the code adds floats);             *)
(*   - a JSON document is modelled by the keys the code reads;             *)
(*   - KeyboardInterrupt is delivered while the agent script is inside the *)
(*     try block of run_autonomous_agent (connecting, sending, waiting for *)
(*     messages), which is where the script spends its run;                *)
(*   - a character is a one-character string, a text a sequence of them.   *)
(***************************************************************************)
EXTENDS Integers, Sequences, FiniteSets, TLC

\* ------------------------------------------------------------------ bounds

\* The longest "tasks" list of a tasks document.
MaxTasks == 2
\* The most messages the SDK delivers in one session.
MaxMessages == 3
\* The number of pages of the source PDF.
NumPages == 2
\* The longest chapter list the model service returns.
MaxChapters == 2

\* ------------------------------------------------------- program constants

\* safe_title is cut to this many characters: [:50].
TitleLimit == 50

\* ------------------------------------------------------------------- state

VARIABLES
    script,            \* "agent" or "pdf": which script this run executes
    pc,                \* the position of the script
    exc,               \* the exception raised in this run ("none": none yet)
    exit_code,         \* the process's exit code (-1: still running)
    stderr,            \* the lines written to standard error (their kind)
    stdout,            \* the result and error lines written to standard output
    calls,             \* the external calls attempted so far, in order
    \* --- the agent script
    argv_given,        \* len(sys.argv) >= 2
    course_dir_exists, \* course_path.exists()
    tasks_file,        \* todo/course_tasks.json on disk
    info_file,         \* todo/course_information.json on disk
    tasks_data,        \* the in-memory tasks document
    course_info,       \* the in-memory course information document
    sent,              \* the prompts the SDK was sent
    received,          \* the messages the SDK has delivered
    message_count,     \* the local of run_autonomous_agent
    total_cost,        \* the local of run_autonomous_agent
    agent_writes,      \* how often the external agent rewrote the tasks file
    \* --- the PDF script
    pdf_exists,        \* pdf_path.exists()
    api_key,           \* args.api_key or os.getenv('GEMINI_API_KEY') is set
    remote_file,       \* the upload on the model service: none/uploaded/deleted
    result,            \* the parsed response of the model service
    chapters,          \* the chapter list main hands to split_pdf
    done_chapters,     \* how many entries the loop of split_pdf has completed
    files              \* the PDF files in the output directory

vars == <<script, pc, exc, exit_code, stderr, stdout, calls,
          argv_given, course_dir_exists, tasks_file, info_file, tasks_data,
          course_info, sent, received, message_count, total_cost, agent_writes,
          pdf_exists, api_key, remote_file, result, chapters, done_chapters,
          files>>

agent_vars == <<argv_given, course_dir_exists, tasks_file, info_file,
                tasks_data, course_info, sent, received, message_count,
                total_cost, agent_writes>>

pdf_vars == <<pdf_exists, api_key, remote_file, result, chapters,
              done_chapters, files>>

\* ----------------------------------------------------------------- helpers

\* The sequences over S of length at most n.
SeqUpTo(S, n) == UNION {[1..k -> S] : k \in 0..n}

\* One external call: op names it, arg is the chapter entry of a write.
Call(op, arg) == [op |-> op, arg |-> arg]

\* One line of standard output: a text and the number printed in it.
Line(text, value) == [text |-> text, value |-> value]

\* ------------------------------------------------------ the agent's inputs

\* A task record: the code reads only its "status" key, which may be absent.
Tasks ==
    { [has_status |-> TRUE, status |-> "pending"],
      [has_status |-> TRUE, status |-> "done"],
      [has_status |-> FALSE, status |-> ""] }

\* A file on disk, or a document in memory (kind "none": not loaded).
NoDoc == [kind |-> "none", has_tasks |-> FALSE, tasks |-> <<>>]

TaskFiles ==
    { [kind |-> "missing", has_tasks |-> FALSE, tasks |-> <<>>],
      [kind |-> "malformed", has_tasks |-> FALSE, tasks |-> <<>>],
      [kind |-> "doc", has_tasks |-> FALSE, tasks |-> <<>>] }
    \cup { [kind |-> "doc", has_tasks |-> TRUE, tasks |-> ts] :
              ts \in SeqUpTo(Tasks, MaxTasks) }

NoInfo == [kind |-> "none", has_name |-> FALSE]

InfoFiles ==
    { [kind |-> "missing", has_name |-> FALSE],
      [kind |-> "malformed", has_name |-> FALSE],
      [kind |-> "doc", has_name |-> FALSE],
      [kind |-> "doc", has_name |-> TRUE] }

\* The messages of the SDK: an assistant message, a system message, and
\* result messages whose total_cost_usd is None, 0, 1 or 2.
Messages ==
    { [type |-> "assistant", has_cost |-> FALSE, total_cost_usd |-> 0],
      [type |-> "system", has_cost |-> FALSE, total_cost_usd |-> 0],
      [type |-> "result", has_cost |-> FALSE, total_cost_usd |-> 0],
      [type |-> "result", has_cost |-> TRUE, total_cost_usd |-> 0],
      [type |-> "result", has_cost |-> TRUE, total_cost_usd |-> 1],
      [type |-> "result", has_cost |-> TRUE, total_cost_usd |-> 2] }

\* ------------------------------------------- construct_autonomous_instruction

\* tasks_data.get("tasks", [])
TasksOf(doc) == IF doc.has_tasks THEN doc.tasks ELSE <<>>

\* [t for t in ts if t.get("status") == "pending"]
RECURSIVE PendingTasks(_)
PendingTasks(ts) ==
    IF ts = <<>> THEN <<>>
    ELSE LET t == Head(ts)
         IN  IF t.has_status /\ t.status = "pending"
             THEN <<t>> \o PendingTasks(Tail(ts))
             ELSE PendingTasks(Tail(ts))

construct_autonomous_instruction_counts_not_done(td, ci) ==
    [ course_name |-> IF ci.has_name THEN "course_name" ELSE "Unknown Course",
      total_tasks |-> Len(TasksOf(td)),
      pending_tasks |->
          Cardinality({k \in DOMAIN TasksOf(td) :
                          ~(TasksOf(td)[k].has_status
                            /\ TasksOf(td)[k].status = "done")}) ]

\* The prompt: the three values the template is filled with.
construct_autonomous_instruction(td, ci) ==
    [ course_name |-> IF ci.has_name THEN "course_name" ELSE "Unknown Course",
      total_tasks |-> Len(TasksOf(td)),
      pending_tasks |-> Len(PendingTasks(TasksOf(td))) ]

\* ------------------------------------------------------- the agent script

\* Leaving the script: the exit code is set and nothing runs after it.
Exit(code) == /\ pc' = "done"
              /\ exit_code' = code

\* main(): the usage check.
AgentMain ==
    /\ script = "agent" /\ pc = "main"
    /\ IF ~argv_given
       THEN /\ stderr' = Append(stderr, "Usage")
            /\ Exit(1)
       ELSE /\ pc' = "validate"
            /\ UNCHANGED <<stderr, exit_code>>
    /\ UNCHANGED <<script, exc, stdout, calls, agent_vars, pdf_vars>>

\* run_autonomous_agent: the raise outside any try block.
Validate ==
    /\ script = "agent" /\ pc = "validate"
    /\ IF ~course_dir_exists
       THEN /\ exc' = "FileNotFoundError"
            /\ pc' = "uncaught"
       ELSE /\ pc' = "load"
            /\ UNCHANGED exc
    /\ UNCHANGED <<script, exit_code, stderr, stdout, calls, agent_vars,
                   pdf_vars>>

load_course_data_truncates ==
    /\ script = "agent" /\ pc = "load"
    /\ IF tasks_file.kind = "missing" \/ info_file.kind = "missing"
       THEN /\ exc' = "FileNotFoundError"
            /\ pc' = "load_except"
            /\ UNCHANGED <<tasks_data, course_info, tasks_file>>
       ELSE IF tasks_file.kind = "malformed" \/ info_file.kind = "malformed"
       THEN /\ exc' = "JSONDecodeError"
            /\ pc' = "load_except"
            /\ UNCHANGED <<tasks_data, course_info, tasks_file>>
       ELSE /\ tasks_data' = tasks_file
            /\ course_info' = info_file
            /\ tasks_file' = [tasks_file EXCEPT !.kind = "malformed"]
            /\ pc' = "connect"
            /\ UNCHANGED exc
    /\ UNCHANGED <<script, exit_code, stderr, stdout, calls, argv_given,
                   course_dir_exists, info_file, sent, received,
                   message_count, total_cost, agent_writes, pdf_vars>>

\* The try body at "Load course data": load_course_data and the two prints.
load_course_data ==
    /\ script = "agent" /\ pc = "load"
    /\ IF tasks_file.kind = "missing" \/ info_file.kind = "missing"
       THEN /\ exc' = "FileNotFoundError"
            /\ pc' = "load_except"
            /\ UNCHANGED <<tasks_data, course_info>>
       ELSE IF tasks_file.kind = "malformed" \/ info_file.kind = "malformed"
       THEN /\ exc' = "JSONDecodeError"
            /\ pc' = "load_except"
            /\ UNCHANGED <<tasks_data, course_info>>
       ELSE /\ tasks_data' = tasks_file
            /\ course_info' = info_file
            /\ pc' = "connect"
            /\ UNCHANGED exc
    /\ UNCHANGED <<script, exit_code, stderr, stdout, calls, argv_given,
                   course_dir_exists, tasks_file, info_file, sent, received,
                   message_count, total_cost, agent_writes, pdf_vars>>

LoadExcept_continues ==
    /\ script = "agent" /\ pc = "load_except"
    /\ stderr' = Append(stderr, IF exc = "FileNotFoundError"
                                THEN "Error" ELSE "Error parsing JSON")
    /\ pc' = "connect"
    /\ UNCHANGED <<script, exc, exit_code, stdout, calls, agent_vars, pdf_vars>>

\* except FileNotFoundError / except json.JSONDecodeError of the load.
LoadExcept ==
    /\ script = "agent" /\ pc = "load_except"
    /\ stderr' = Append(stderr, IF exc = "FileNotFoundError"
                                THEN "Error" ELSE "Error parsing JSON")
    /\ Exit(1)
    /\ UNCHANGED <<script, exc, stdout, calls, agent_vars, pdf_vars>>

\* An exception raised inside the try block of the session: control leaves
\* the async with block and reaches the except clauses.
RaiseInSession(e) ==
    /\ exc' = e
    /\ pc' = "session_except"

\* async with ClaudeSDKClient(options=options) as client: the connect.
Connect ==
    /\ script = "agent" /\ pc = "connect"
    /\ calls' = Append(calls, Call("connect", 0))
    /\ \E outcome \in {"ok", "CLIConnectionError", "Exception"} :
          IF outcome = "ok"
          THEN pc' = "query" /\ UNCHANGED exc
          ELSE RaiseInSession(outcome)
    /\ UNCHANGED <<script, exit_code, stderr, stdout, agent_vars, pdf_vars>>

\* initial_prompt = construct_autonomous_instruction(...); client.query(...)
Query ==
    /\ script = "agent" /\ pc = "query"
    /\ calls' = Append(calls, Call("query", 0))
    /\ \E outcome \in {"ok", "CLIConnectionError", "Exception"} :
          IF outcome = "ok"
          THEN /\ sent' = Append(sent, construct_autonomous_instruction(
                                           tasks_data, course_info))
               /\ pc' = "receive"
               /\ UNCHANGED exc
          ELSE /\ RaiseInSession(outcome)
               /\ UNCHANGED sent
    /\ UNCHANGED <<script, exit_code, stderr, stdout, argv_given,
                   course_dir_exists, tasks_file, info_file, tasks_data,
                   course_info, received, message_count, total_cost,
                   agent_writes, pdf_vars>>

CostAfter_overwrites(cost, msg) ==
    IF msg.type = "result" /\ msg.has_cost /\ msg.total_cost_usd # 0
    THEN msg.total_cost_usd
    ELSE cost

\* The "Track costs" branch of the loop body: total_cost after msg.
CostAfter(cost, msg) ==
    IF msg.type = "assistant" THEN cost
    ELSE IF msg.type = "result"
    THEN IF msg.has_cost /\ msg.total_cost_usd # 0
         THEN cost + msg.total_cost_usd
         ELSE cost
    ELSE cost

\* One iteration of: async for msg in client.receive_messages().
Receive ==
    /\ script = "agent" /\ pc = "receive"
    /\ Len(received) < MaxMessages
    /\ \E msg \in Messages :
          /\ received' = Append(received, msg)
          /\ message_count' = message_count + 1
          /\ total_cost' = CostAfter(total_cost, msg)
    /\ UNCHANGED <<script, pc, exc, exit_code, stderr, stdout, calls,
                   argv_given, course_dir_exists, tasks_file, info_file,
                   tasks_data, course_info, sent, agent_writes, pdf_vars>>

\* The stream raises instead of delivering a message.
ReceiveError ==
    /\ script = "agent" /\ pc = "receive"
    /\ \E e \in {"CLIConnectionError", "Exception"} : RaiseInSession(e)
    /\ UNCHANGED <<script, exit_code, stderr, stdout, calls, agent_vars,
                   pdf_vars>>

\* The stream ends: the summary is printed and the function returns.
StreamEnd ==
    /\ script = "agent" /\ pc = "receive"
    /\ stdout' = stdout \o << Line("Total messages processed", message_count),
                              Line("Total cost", total_cost) >>
    /\ Exit(0)
    /\ UNCHANGED <<script, exc, stderr, calls, agent_vars, pdf_vars>>

\* The user interrupts the run while the session's try block is executing.
Interrupt ==
    /\ script = "agent" /\ pc \in {"connect", "query", "receive"}
    /\ RaiseInSession("KeyboardInterrupt")
    /\ UNCHANGED <<script, exit_code, stderr, stdout, calls, agent_vars,
                   pdf_vars>>

SessionExcept_interrupt_fails ==
    /\ script = "agent" /\ pc = "session_except"
    /\ IF exc = "CLIConnectionError"
       THEN /\ stderr' = Append(stderr, "Connection error")
            /\ UNCHANGED stdout
            /\ Exit(1)
       ELSE /\ stderr' = Append(stderr, "Unexpected error")
            /\ UNCHANGED stdout
            /\ Exit(1)
    /\ UNCHANGED <<script, exc, calls, agent_vars, pdf_vars>>

\* except CLIConnectionError / KeyboardInterrupt / Exception of the session.
SessionExcept ==
    /\ script = "agent" /\ pc = "session_except"
    /\ IF exc = "CLIConnectionError"
       THEN /\ stderr' = Append(stderr, "Connection error")
            /\ UNCHANGED stdout
            /\ Exit(1)
       ELSE IF exc = "KeyboardInterrupt"
       THEN /\ stdout' = Append(stdout, Line("Cost so far", total_cost))
            /\ UNCHANGED stderr
            /\ Exit(0)
       ELSE /\ stderr' = Append(stderr, "Unexpected error")
            /\ UNCHANGED stdout
            /\ Exit(1)
    /\ UNCHANGED <<script, exc, calls, agent_vars, pdf_vars>>

\* An exception no except clause covers: the interpreter prints the
\* traceback to standard error and exits with code 1.
Uncaught ==
    /\ script = "agent" /\ pc = "uncaught"
    /\ stderr' = Append(stderr, "Traceback")
    /\ Exit(1)
    /\ UNCHANGED <<script, exc, stdout, calls, agent_vars, pdf_vars>>

\* The first pending task of ts set to "done".
RECURSIVE MarkFirstPendingDone(_)
MarkFirstPendingDone(ts) ==
    IF ts = <<>> THEN <<>>
    ELSE IF Head(ts).has_status /\ Head(ts).status = "pending"
    THEN <<[has_status |-> TRUE, status |-> "done"]>> \o Tail(ts)
    ELSE <<Head(ts)>> \o MarkFirstPendingDone(Tail(ts))

\* The environment: the external agent, at work during the session, updates
\* a task's status in course_tasks.json (step 5 of the prompt).
ExternalAgentRewrite ==
    /\ script = "agent" /\ pc = "receive"
    /\ PendingTasks(TasksOf(tasks_file)) # <<>>
    /\ tasks_file' = [tasks_file EXCEPT
                         !.tasks = MarkFirstPendingDone(tasks_file.tasks)]
    /\ agent_writes' = agent_writes + 1
    /\ UNCHANGED <<script, pc, exc, exit_code, stderr, stdout, calls,
                   argv_given, course_dir_exists, info_file, tasks_data,
                   course_info, sent, received, message_count, total_cost,
                   pdf_vars>>


\* --------------------------------------------------- the PDF script's inputs

\* The source document: page i of the PDF, 1-indexed, is labelled i.
source == [i \in 1..NumPages |-> i]

\* reader.pages[k]: the reader's list is 0-indexed.
ReaderPage(k) == source[k + 1]

AlnumChars == {"a", "b", "x", "y", "A", "I", "n", "0", "1", "2", "3", "4",
               "5", "6", "7", "8", "9"}

\* A title of TitleLimit + 1 characters ending in c.
LongTitle(c) == [i \in 1..(TitleLimit + 1) |-> IF i <= TitleLimit THEN "a" ELSE c]

Titles ==
    { <<"I", "n">>,
      <<"I", "n", "!">>,
      <<" ", "A", " ", "b">>,
      LongTitle("x"),
      LongTitle("y") }

ChapterNumbers == {1, 2}

\* The chapter records of a response: every number and title with a range
\* inside the document and one running past its end, and every page range
\* (start inside the document, end up to one page past it) for one title.
ChapterRecords ==
    { [chapter_number |-> n, chapter_title |-> t,
       start_page |-> 1, end_page |-> e] :
         n \in ChapterNumbers, t \in Titles, e \in {1, NumPages + 1} }
    \cup
    { [chapter_number |-> 1, chapter_title |-> <<"I", "n">>,
       start_page |-> s, end_page |-> e] :
         s \in 1..NumPages, e \in 1..(NumPages + 1) }

\* What json.loads returns: an object with or without a "chapters" list.
Results ==
    { [has_chapters |-> FALSE, chapters |-> <<>>] }
    \cup { [has_chapters |-> TRUE, chapters |-> cs] :
              cs \in SeqUpTo(ChapterRecords, MaxChapters) }

\* ----------------------------------------------------------------- split_pdf

\* "".join(c for c in title if c.isalnum() or c in (' ', '-', '_'))
RECURSIVE KeepSafe(_)
KeepSafe(t) ==
    IF t = <<>> THEN <<>>
    ELSE IF Head(t) \in AlnumChars \cup {" ", "-", "_"}
    THEN <<Head(t)>> \o KeepSafe(Tail(t))
    ELSE KeepSafe(Tail(t))

\* str.strip(): after KeepSafe the only whitespace left is the space.
RECURSIVE Strip(_)
Strip(t) ==
    IF t = <<>> THEN <<>>
    ELSE IF Head(t) = " " THEN Strip(Tail(t))
    ELSE IF t[Len(t)] = " " THEN Strip(SubSeq(t, 1, Len(t) - 1))
    ELSE t

\* .replace(' ', '_')
ReplaceSpaces(t) == [i \in 1..Len(t) |-> IF t[i] = " " THEN "_" ELSE t[i]]

\* [:50]
Truncate(t) == SubSeq(t, 1, IF Len(t) < TitleLimit THEN Len(t) ELSE TitleLimit)

safe_title(title) == Truncate(ReplaceSpaces(Strip(KeepSafe(title))))

DigitChar(d) == <<"0", "1", "2", "3", "4", "5", "6", "7", "8", "9">>[d + 1]

RECURSIVE Digits(_)
Digits(n) == IF n < 10 THEN <<DigitChar(n)>>
             ELSE Digits(n \div 10) \o <<DigitChar(n % 10)>>

\* f"{n:02d}" for n >= 0
Format02d(n) == IF n < 10 THEN <<"0">> \o Digits(n) ELSE Digits(n)

\* f"Chapter_{chapter['chapter_number']:02d}_{safe_title}.pdf"
output_filename(chapter) ==
    <<"Chapter_">> \o Format02d(chapter.chapter_number) \o <<"_">>
        \o safe_title(chapter.chapter_title) \o <<".pdf">>

PageIndices_skips_first(chapter) ==
    [i \in 1..(chapter.end_page - chapter.start_page) |->
        chapter.start_page + i - 1]

\* range(start_page, end_page) with start_page = chapter["start_page"] - 1
\* and end_page = chapter["end_page"]: the 0-based indices, in order.
PageIndices(chapter) ==
    LET start_page == chapter.start_page - 1
        end_page == chapter.end_page
    IN  [i \in 1..(end_page - start_page) |-> start_page + i - 1]

\* reader.pages[page_num] raises IndexError for an index past the last page.
IndexErrorIn(chapter) ==
    \E i \in DOMAIN PageIndices(chapter) : PageIndices(chapter)[i] >= NumPages

\* The pages the writer holds after the inner loop.
WriterPages(chapter) ==
    [i \in DOMAIN PageIndices(chapter) |-> ReaderPage(PageIndices(chapter)[i])]

\* open(output_path, 'wb') and writer.write: the file is created or replaced.
WriteFile(fs, name, pages) ==
    {f \in fs : f.name # name} \cup {[name |-> name, pages |-> pages]}

\* --------------------------------------------------------- the PDF script

\* main(): the argument checks and the creation of the output directory.
PdfMain ==
    /\ script = "pdf" /\ pc = "main"
    /\ IF ~pdf_exists
       THEN /\ stdout' = Append(stdout, Line("Error: File not found", 0))
            /\ Exit(1)
       ELSE IF ~api_key
       THEN /\ stdout' = Append(stdout, Line("Error: GEMINI_API_KEY required", 0))
            /\ Exit(1)
       ELSE /\ pc' = "upload"
            /\ UNCHANGED <<stdout, exit_code>>
    /\ UNCHANGED <<script, exc, stderr, calls, agent_vars, pdf_vars>>

\* An exception raised inside get_chapter_boundaries reaches main's except.
RaiseInAnalysis(e) ==
    /\ exc' = e
    /\ pc' = "analysis_except"

\* get_chapter_boundaries: genai.upload_file.
Upload ==
    /\ script = "pdf" /\ pc = "upload"
    /\ calls' = Append(calls, Call("upload", 0))
    /\ \E ok \in BOOLEAN :
          IF ok
          THEN /\ remote_file' = "uploaded"
               /\ pc' = "analyze"
               /\ UNCHANGED exc
          ELSE /\ RaiseInAnalysis("Exception")
               /\ UNCHANGED remote_file
    /\ UNCHANGED <<script, exit_code, stderr, stdout, agent_vars, pdf_exists,
                   api_key, result, chapters, done_chapters, files>>

\* get_chapter_boundaries: model.generate_content and response.text.
Analyze ==
    /\ script = "pdf" /\ pc = "analyze"
    /\ calls' = Append(calls, Call("generate_content", 0))
    /\ \E ok \in BOOLEAN :
          IF ok
          THEN pc' = "parse" /\ UNCHANGED exc
          ELSE RaiseInAnalysis("Exception")
    /\ UNCHANGED <<script, exit_code, stderr, stdout, agent_vars, pdf_vars>>

\* get_chapter_boundaries: the fences are stripped and json.loads parses.
Parse ==
    /\ script = "pdf" /\ pc = "parse"
    /\ \/ /\ RaiseInAnalysis("JSONDecodeError")
          /\ UNCHANGED result
       \/ \E r \in Results :
             /\ result' = r
             /\ pc' = "delete"
             /\ UNCHANGED exc
    /\ UNCHANGED <<script, exit_code, stderr, stdout, calls, agent_vars,
                   pdf_exists, api_key, remote_file, chapters, done_chapters,
                   files>>

\* get_chapter_boundaries: genai.delete_file and the return.
Delete ==
    /\ script = "pdf" /\ pc = "delete"
    /\ calls' = Append(calls, Call("delete_file", 0))
    /\ \E ok \in BOOLEAN :
          IF ok
          THEN /\ remote_file' = "deleted"
               /\ chapters' = IF result.has_chapters THEN result.chapters
                              ELSE <<>>
               /\ pc' = "check"
               /\ UNCHANGED exc
          ELSE /\ RaiseInAnalysis("Exception")
               /\ UNCHANGED <<remote_file, chapters>>
    /\ UNCHANGED <<script, exit_code, stderr, stdout, agent_vars, pdf_exists,
                   api_key, result, done_chapters, files>>

AnalysisExcept_retries ==
    /\ script = "pdf" /\ pc = "analysis_except"
    /\ stdout' = Append(stdout, Line("Error", 0))
    /\ pc' = IF Len(calls) < 4 THEN "upload" ELSE "done"
    /\ exit_code' = IF Len(calls) < 4 THEN exit_code ELSE 1
    /\ UNCHANGED <<script, exc, stderr, calls, agent_vars, pdf_vars>>

\* main: except Exception around get_chapter_boundaries.
AnalysisExcept ==
    /\ script = "pdf" /\ pc = "analysis_except"
    /\ stdout' = Append(stdout, Line("Error", 0))
    /\ Exit(1)
    /\ UNCHANGED <<script, exc, stderr, calls, agent_vars, pdf_vars>>

\* main: "if not chapters" and the listing of the chapters found.
Check ==
    /\ script = "pdf" /\ pc = "check"
    /\ IF chapters = <<>>
       THEN /\ stdout' = Append(stdout, Line("Error: No chapters identified", 0))
            /\ Exit(1)
       ELSE /\ stdout' = Append(stdout, Line("Found chapters", Len(chapters)))
            /\ pc' = "open"
            /\ UNCHANGED exit_code
    /\ UNCHANGED <<script, exc, stderr, calls, agent_vars, pdf_vars>>

\* An exception raised inside split_pdf reaches main's second except.
RaiseInSplit(e) ==
    /\ exc' = e
    /\ pc' = "split_except"

\* split_pdf: reader = PdfReader(pdf_path), which a broken file fails.
OpenReader ==
    /\ script = "pdf" /\ pc = "open"
    /\ \E ok \in BOOLEAN :
          IF ok
          THEN pc' = "split" /\ UNCHANGED exc
          ELSE RaiseInSplit("Exception")
    /\ UNCHANGED <<script, exit_code, stderr, stdout, calls, agent_vars,
                   pdf_vars>>

\* split_pdf: one iteration of "for chapter in chapters".
SplitChapter ==
    /\ script = "pdf" /\ pc = "split"
    /\ done_chapters < Len(chapters)
    /\ LET entry == done_chapters + 1
           chapter == chapters[entry]
       IN  IF IndexErrorIn(chapter)
           THEN /\ RaiseInSplit("IndexError")
                /\ UNCHANGED <<calls, files, done_chapters>>
           ELSE /\ calls' = Append(calls, Call("write", entry))
                /\ \E ok \in BOOLEAN :
                      IF ok
                      THEN /\ files' = WriteFile(files, output_filename(chapter),
                                                 WriterPages(chapter))
                           /\ done_chapters' = entry
                           /\ UNCHANGED <<pc, exc>>
                      ELSE /\ RaiseInSplit("OSError")
                           /\ UNCHANGED <<files, done_chapters>>
    /\ UNCHANGED <<script, exit_code, stderr, stdout, agent_vars, pdf_exists,
                   api_key, remote_file, result, chapters>>

\* main: split_pdf returned.
SplitDone ==
    /\ script = "pdf" /\ pc = "split"
    /\ done_chapters = Len(chapters)
    /\ stdout' = Append(stdout, Line("Successfully split PDF", Len(chapters)))
    /\ Exit(0)
    /\ UNCHANGED <<script, exc, stderr, calls, agent_vars, pdf_vars>>

\* main: except Exception around split_pdf.
SplitExcept ==
    /\ script = "pdf" /\ pc = "split_except"
    /\ stdout' = Append(stdout, Line("Error", 0))
    /\ Exit(1)
    /\ UNCHANGED <<script, exc, stderr, calls, agent_vars, pdf_vars>>

\* ------------------------------------------------------------ specification

\* A run of the agent script starts in main with the files as they are on
\* disk; a run of the PDF script starts in main with an empty output directory.
Init ==
    /\ script \in {"agent", "pdf"}
    /\ pc = "main"
    /\ exc = "none"
    /\ exit_code = -1
    /\ stderr = <<>>
    /\ stdout = <<>>
    /\ calls = <<>>
    /\ tasks_data = NoDoc
    /\ course_info = NoInfo
    /\ sent = <<>>
    /\ received = <<>>
    /\ message_count = 0
    /\ total_cost = 0
    /\ agent_writes = 0
    /\ remote_file = "none"
    /\ result = [has_chapters |-> FALSE, chapters |-> <<>>]
    /\ chapters = <<>>
    /\ done_chapters = 0
    /\ files = {}
    /\ IF script = "agent"
       THEN /\ argv_given \in BOOLEAN
            /\ course_dir_exists \in BOOLEAN
            /\ tasks_file \in TaskFiles
            /\ info_file \in InfoFiles
            /\ pdf_exists = FALSE
            /\ api_key = FALSE
       ELSE /\ pdf_exists \in BOOLEAN
            /\ api_key \in BOOLEAN
            /\ argv_given = FALSE
            /\ course_dir_exists = FALSE
            /\ tasks_file = NoDoc
            /\ info_file = NoInfo

Next ==
    \/ AgentMain
    \/ Validate
    \/ load_course_data
    \/ LoadExcept
    \/ Connect
    \/ Query
    \/ Receive
    \/ ReceiveError
    \/ StreamEnd
    \/ Interrupt
    \/ SessionExcept
    \/ Uncaught
    \/ ExternalAgentRewrite
    \/ PdfMain
    \/ Upload
    \/ Analyze
    \/ Parse
    \/ Delete
    \/ AnalysisExcept
    \/ Check
    \/ OpenReader
    \/ SplitChapter
    \/ SplitDone
    \/ SplitExcept

Spec == Init /\ [][Next]_vars


\* ------------------------------------------------------------------- claims

\* The number of entries of the "tasks" list whose status is "pending".
NumPending(doc) ==
    IF doc.has_tasks
    THEN Cardinality({k \in DOMAIN doc.tasks :
                         doc.tasks[k].has_status
                         /\ doc.tasks[k].status = "pending"})
    ELSE 0

\* C1: the prompt sent states a total equal to the number of entries of the
\* "tasks" list and a pending count equal to the number of entries whose
\* status is exactly "pending"; both are 0 when the "tasks" key is absent.
C1_PromptCounts ==
    \A i \in DOMAIN sent :
        /\ sent[i].total_tasks =
               (IF tasks_data.has_tasks THEN Len(tasks_data.tasks) ELSE 0)
        /\ sent[i].pending_tasks = NumPending(tasks_data)
        /\ ~tasks_data.has_tasks =>
               sent[i].total_tasks = 0 /\ sent[i].pending_tasks = 0

\* A prompt was sent for a document holding a pending task and a task with
\* no status: the total is 2 and the pending count 1.
C1_Witness ==
    /\ sent # <<>>
    /\ tasks_data.has_tasks
    /\ \E k \in DOMAIN tasks_data.tasks : ~tasks_data.tasks[k].has_status
    /\ sent[1].total_tasks = 2
    /\ sent[1].pending_tasks = 1

\* A required file of the agent script is missing or malformed.
BadAgentInput ==
    \/ ~argv_given
    \/ ~course_dir_exists
    \/ tasks_file.kind \in {"missing", "malformed"}
    \/ info_file.kind \in {"missing", "malformed"}

RangesInside ==
    \A k \in DOMAIN chapters :
        /\ 1 <= chapters[k].start_page
        /\ chapters[k].start_page <= chapters[k].end_page
        /\ chapters[k].end_page <= NumPages

\* C3: after split_pdf has processed a chapter list of N entries whose page
\* ranges lie inside the document, the output directory holds exactly N
\* files, also when two entries share the number and the sanitised title.
C3_OneFilePerEntry ==
    (script = "pdf" /\ pc = "done" /\ exit_code = 0 /\ RangesInside) =>
        Cardinality(files) = Len(chapters)

\* C4: the file written for a chapter with 1 <= s <= e <= number of pages
\* holds exactly the source pages s..e, in order (e - s + 1 pages).  The
\* chapter looked at is the one the loop has just completed, whose file no
\* later entry can have replaced.
C4_PageRange ==
    (script = "pdf" /\ done_chapters >= 1) =>
        LET chapter == chapters[done_chapters]
            s == chapter.start_page
            e == chapter.end_page
        IN  (1 <= s /\ s <= e /\ e <= NumPages) =>
                \E f \in files :
                    /\ f.name = output_filename(chapter)
                    /\ Len(f.pages) = e - s + 1
                    /\ \A i \in 1..(e - s + 1) : f.pages[i] = source[s + i - 1]

\* A chapter of more than one page, starting after page 1 or not, is written.
C4_Witness ==
    /\ script = "pdf" /\ done_chapters >= 1
    /\ chapters[done_chapters].start_page = 1
    /\ chapters[done_chapters].end_page = NumPages
    /\ \E f \in files : Len(f.pages) = NumPages

\* A run ended in an error: a bad input, or an exception other than the
\* user's interrupt.
ErrorOutcome ==
    /\ pc = "done"
    /\ \/ script = "agent" /\ BadAgentInput
       \/ script = "pdf" /\ (~pdf_exists \/ ~api_key)
       \/ exc \notin {"none", "KeyboardInterrupt"}

\* C5: in both scripts every error outcome is caught at the top level, has
\* its message written to standard error and ends with a non-zero exit code.
C5_ErrorsToStderr ==
    ErrorOutcome =>
        /\ stderr # <<>>
        /\ \A i \in DOMAIN stderr : stderr[i] # "Traceback"
        /\ exit_code # 0

C7_ScriptLeavesDocuments ==
    [][ script = "agent" =>
          /\ tasks_file' # tasks_file => agent_writes' = agent_writes + 1
          /\ info_file' = info_file
          /\ tasks_data # NoDoc => tasks_data' = tasks_data
          /\ course_info # NoInfo => course_info' = course_info ]_vars

\* The external agent has rewritten the tasks file during the message loop,
\* and the document in memory is still the one that was loaded.
C7_Witness ==
    /\ script = "agent"
    /\ agent_writes >= 1
    /\ message_count >= 1
    /\ tasks_data # NoDoc
    /\ tasks_file # tasks_data

\* C8: the session is opened and the prompt sent only with both documents
\* loaded; a run with a missing or malformed input never opens a session or
\* sends a prompt; a prompt is sent at most once, before any message.
C8_PromptAfterLoad ==
    script = "agent" =>
        /\ calls # <<>> => (tasks_data.kind = "doc" /\ course_info.kind = "doc")
        /\ BadAgentInput => (calls = <<>> /\ sent = <<>>)
        /\ Len(sent) <= 1
        /\ message_count > 0 => Len(sent) = 1

\* A message was received in a session whose prompt had been sent.
C8_Witness ==
    /\ script = "agent"
    /\ message_count > 0
    /\ Len(sent) = 1
    /\ Len(calls) = 2

\* The sum of total_cost_usd over the result messages of msgs whose cost is
\* present and not zero.
RECURSIVE SumOfCosts(_)
SumOfCosts(msgs) ==
    IF msgs = <<>> THEN 0
    ELSE LET m == msgs[Len(msgs)]
         IN  SumOfCosts(SubSeq(msgs, 1, Len(msgs) - 1))
               + (IF m.type = "result" /\ m.has_cost /\ m.total_cost_usd # 0
                  THEN m.total_cost_usd ELSE 0)

\* C9: message_count is the number of messages received, total_cost the sum
\* of the non-zero costs of the result messages received, and the totals
\* printed at completion or on interruption are these values.
C9_Totals ==
    script = "agent" =>
        /\ message_count = Len(received)
        /\ total_cost = SumOfCosts(received)
        /\ \A i \in DOMAIN stdout :
              /\ stdout[i].text = "Total messages processed" =>
                     stdout[i].value = Len(received)
              /\ stdout[i].text \in {"Total cost", "Cost so far"} =>
                     stdout[i].value = SumOfCosts(received)

\* Two result messages with costs 1 and 2 were received and the session's
\* summary was printed.
C9_Witness ==
    /\ script = "agent" /\ pc = "done"
    /\ message_count = 2
    /\ total_cost = 3
    /\ \E i \in DOMAIN stdout : stdout[i].text = "Total cost"

\* C10: a run of the PDF script that uploaded the source file has deleted
\* the upload by the time it exits.
C10_UploadDeleted ==
    (script = "pdf" /\ pc = "done" /\ remote_file # "none") =>
        remote_file = "deleted"

=============================================================================
